---- MODULE Spec2Model ----
(***************************************************************************)
(* Model of the image viewer in src/src/main.rs: the image list builder    *)
(* (get_filelist), the Stage state (Stage::new and its methods) and the    *)
(* miniquad event handlers (char_event, key_down_event, resize_event,      *)
(* update, draw).                                                          *)
(*                                                                         *)
(* A directory is a sequence of entries in read_dir order.  An entry is a  *)
(* record [path, ext, mtime]: path identifies the entry, ext is what       *)
(* Path::extension returns for it (NoExt for None), mtime is the           *)
(* modification time, NoMeta when metadata() fails for the entry.          *)
(* An f32 is modelled bit-exactly as <<m, e>>, the value m * 2^e with a     *)
(* 24-bit mantissa (2^23 <= |m| < 2^24, or <<0, 0>> for zero), rounded to   *)
(* nearest, ties to even, as IEEE 754 single precision does.               *)
(***************************************************************************)
EXTENDS Integers, Sequences, FiniteSets, TLC

\* ---------------------------------------------------------------- bounds
\* longest image list of the navigation specification
MaxImages == 3
\* longest directory listing of the builder specification
MaxEntries == 3
\* modification times are 1..MaxMtime
MaxMtime == 2
\* rand::random::<usize>() draws from 0..MaxRand
MaxRand == 3
\* frame ticks followed after one event
MaxTicks == 5
\* widths and heights of the geometry specification are at most MaxDim
MaxDim == 11

\* ------------------------------------------------------- program constants
RENDERS == 3

SUPPORTED_IMAGE_TYPES == {"jpg", "jpeg", "png", "bmp", "tif"}

\* Option::None of get_filelist's second result
None == -1

\* Path::extension() == None
NoExt == "<none>"

\* metadata() of the entry fails
NoMeta == 0

\* extensions of the modelled directory entries
Exts == {"jpg", "JPG", "txt", NoExt}

Mtimes == 1 .. MaxMtime

\* window sizes reported by ctx.screen_size(): the configured 1000x800 window
\* (in units of 200) and a wider one
InitialScreen == <<5, 4>>

ScreenSizes == {<<5, 4>>, <<8, 5>>}

\* pixel sizes of decoded images
ImageDims == {<<1, 1>>, <<2, 1>>}

\* window and image sizes of the geometry specification; a decoded image may
\* have no columns or no rows
GeomSizes == (1 .. MaxDim) \X (1 .. MaxDim)

GeomDims == (0 .. MaxDim) \X (0 .. MaxDim)

\* characters and key codes delivered by the window system
Chars == {"u", "o", "m", "f", "q", "x"}

KeyCodes == {"Right", "Left", "Space", "Escape", "A"}

\* ------------------------------------------------------------- get_filelist
\* the filter closure of get_filelist: the extension is one of the supported
\* ones, compared as it is
IsSupported(e) == e.ext # NoExt /\ e.ext \in SUPPORTED_IMAGE_TYPES

FilterSupported(dir) == SelectSeq(dir, IsSupported)

\* a comparator with its operands the other way round: oldest first
ComesAfterAscending(a, b) == a.mtime > b.mtime

\* the comparator of sort_by: b.modified().cmp(a.modified()) is Greater
ComesAfter(a, b) == b.mtime > a.mtime

\* position at which a stable sort places e in the sorted sequence s: behind
\* every element that does not compare Greater than e
RECURSIVE InsertPos(_, _)
InsertPos(s, e) ==
    IF s = <<>> THEN 0
    ELSE IF ComesAfter(s[Len(s)], e) THEN InsertPos(SubSeq(s, 1, Len(s) - 1), e)
    ELSE Len(s)

InsertSorted(s, e) ==
    LET k == InsertPos(s, e)
    IN SubSeq(s, 1, k) \o <<e>> \o SubSeq(s, k + 1, Len(s))

\* image_filenames.sort_by(..): stable, modification time descending
RECURSIVE SortByModified(_)
SortByModified(s) ==
    IF s = <<>> THEN <<>>
    ELSE InsertSorted(SortByModified(SubSeq(s, 1, Len(s) - 1)), s[Len(s)])

\* the comparator runs (and expects metadata) only when there are two or more
\* elements to sort
SortPanics(s) == Len(s) >= 2 /\ \E i \in 1 .. Len(s) : s[i].mtime = NoMeta

\* a scan that counts positions from 1
RECURSIVE FindInitialOneBased(_, _, _)
FindInitialOneBased(s, file, i) ==
    IF i > Len(s) THEN None
    ELSE IF s[i].path = file THEN i
    ELSE FindInitialOneBased(s, file, i + 1)

\* the .any() scan: index (from 0) of the first entry path-equal to file
RECURSIVE FindInitial(_, _, _)
FindInitial(s, file, i) ==
    IF i > Len(s) THEN None
    ELSE IF s[i].path = file THEN i - 1
    ELSE FindInitial(s, file, i + 1)

get_filelist(dir, file) ==
    LET sorted == SortByModified(FilterSupported(dir))
    IN [images |-> sorted, initial |-> FindInitial(sorted, file, 1)]

\* ---------------------------------------------------------------- geometry
\* bits of an f32 mantissa, the hidden bit included
MantBits == 24

MantTop == 2 ^ MantBits

MantMin == 2 ^ (MantBits - 1)

\* half a mantissa: the limbs of the 48-bit product
LimbBits == 12

Limb == 2 ^ LimbBits

F32Zero == <<0, 0>>

\* 1.0
F32One == <<MantMin, 1 - MantBits>>

\* a finite f32, an infinity and a NaN, as the results of / and *
Fin(v) == [k |-> "fin", v |-> v]

Inf == [k |-> "inf", v |-> F32Zero]

NaN == [k |-> "nan", v |-> F32Zero]

\* round to nearest, ties to even: the quotient q with remainder rem of den
RoundNearestEven(q, rem, den) ==
    IF 2 * rem > den \/ (2 * rem = den /\ q % 2 = 1) THEN q + 1 ELSE q

\* a mantissa that rounded up to 2^24 is 2^23 with the next exponent
Renorm(m, e) == IF m = MantTop THEN <<MantMin, e + 1>> ELSE <<m, e>>

\* n * 2^k, with the least k >= 0 for which n * 2^k / d has 24 bits
RECURSIVE ScaleUp(_, _, _)
ScaleUp(num, d, k) ==
    IF num >= d * MantMin THEN <<num, k>> ELSE ScaleUp(2 * num, d, k + 1)

\* n as f32 / d as f32, for the integers n, d >= 0 that a width or a height is
FDiv(n, d) ==
    IF d = 0 THEN (IF n = 0 THEN NaN ELSE Inf)
    ELSE IF n = 0 THEN Fin(F32Zero)
    ELSE LET s == ScaleUp(n, d, 0)
             q == s[1] \div d
             r == s[1] % d
         IN Fin(Renorm(RoundNearestEven(q, r, d), 0 - s[2]))

\* the product of two positive normal f32: the 48-bit product of the
\* mantissas, from 12-bit limbs, rounded to 24 bits
FMulNormal(x, y) ==
    LET a1 == x[1] \div Limb
        a0 == x[1] % Limb
        b1 == y[1] \div Limb
        b0 == y[1] % Limb
        mid == a1 * b0 + a0 * b1
        t == a0 * b0 + (mid % Limb) * Limb
        low == t % MantTop
        hi == a1 * b1 + mid \div Limb + t \div MantTop
        e == x[2] + y[2]
    IN IF hi >= MantMin
       THEN Renorm(RoundNearestEven(hi, low, MantTop), e + MantBits)
       ELSE Renorm(RoundNearestEven(2 * hi + low \div MantMin, low % MantMin, MantMin),
                   e + MantBits - 1)

\* x * y for a positive normal x
FMul(x, y) ==
    IF y.k = "nan" THEN NaN
    ELSE IF y.k = "inf" THEN Inf
    ELSE IF y.v = F32Zero THEN Fin(F32Zero)
    ELSE Fin(FMulNormal(x.v, y.v))

\* v > 1.0, for a positive normal v
GreaterThanOne(v) == v[2] > 1 - MantBits \/ (v[2] = 1 - MantBits /\ v[1] > MantMin)

\* a min that does not clamp
Min1NoClamp(x) == IF x.k = "fin" THEN x.v ELSE F32One

\* x.min(1.0): f32::min returns the other operand when one is NaN
Min1(x) ==
    IF x.k = "nan" THEN F32One
    ELSE IF x.k = "inf" THEN F32One
    ELSE IF x.v # F32Zero /\ GreaterThanOne(x.v) THEN F32One
    ELSE x.v

\* v * -1.0
Neg(v) == <<0 - v[1], v[2]>>

\* ((a / b) * (c / d)).min(1.0)
Scale(a, b, c, d) == Min1(FMul(FDiv(a, b), FDiv(c, d)))

\* the largest width or height of the model
TableDim == IF MaxDim > 8 THEN MaxDim ELSE 8

\* Scale(a, b, c, d) for every a, b in 1..TableDim and c, d in 0..TableDim,
\* computed once: ScaleTable[a][b][c + 1][d + 1]
RECURSIVE ScaleRow(_, _, _, _)
ScaleRow(a, b, c, d) ==
    IF d < 0 THEN <<>> ELSE Append(ScaleRow(a, b, c, d - 1), Scale(a, b, c, d))

RECURSIVE ScalePlane(_, _, _)
ScalePlane(a, b, c) ==
    IF c < 0 THEN <<>> ELSE Append(ScalePlane(a, b, c - 1), ScaleRow(a, b, c, TableDim))

RECURSIVE ScaleCube(_, _)
ScaleCube(a, b) ==
    IF b < 1 THEN <<>> ELSE Append(ScaleCube(a, b - 1), ScalePlane(a, b, TableDim))

RECURSIVE ScaleCubes(_)
ScaleCubes(a) ==
    IF a < 1 THEN <<>> ELSE Append(ScaleCubes(a - 1), ScaleCube(a, TableDim))

ScaleTable == ScaleCubes(TableDim)

\* a ratio that mirrors the other axis
RatioMirrorsY(scr, dims, fl) ==
    LET x == ScaleTable[scr[2]][scr[1]][dims[1] + 1][dims[2] + 1]
        y == ScaleTable[scr[1]][scr[2]][dims[2] + 1][dims[1] + 1]
    IN <<x, IF fl THEN Neg(y) ELSE y>>

\* the ratio of calculate_ratio for screen (sw, sh), texture (iw, ih), flip
Ratio(scr, dims, fl) ==
    LET sw == scr[1]
        sh == scr[2]
        iw == dims[1]
        ih == dims[2]
        x == ScaleTable[sh][sw][iw + 1][ih + 1]
        y == ScaleTable[sw][sh][ih + 1][iw + 1]
    IN <<IF fl THEN Neg(x) ELSE x, y>>

\* ------------------------------------------------------------------- state
VARIABLES
    status,               \* "starting", "running", "panicked", "exited"
    dir,                  \* the directory listing read by get_filelist
    file,                 \* path given on the command line
    screen,               \* ctx.screen_size()
    render,               \* Stage.render
    flip,                 \* Stage.flip
    fullscreen,           \* Stage.fullscreen
    texture,              \* Stage.bindings.images[0]: [path, dims]
    ratio,                \* Stage.ratio
    images,               \* Stage.images
    current_image_index,  \* Stage.current_image_index
    calls,                \* collaborator calls made by the last handler
    lastEvent,            \* the last handler that ran, frame ticks excluded
    ticks,                \* frame ticks since lastEvent
    renderBefore,         \* render when lastEvent arrived
    runLen,               \* length of the run of lastEvent (next, prev, flip)
    runStart,             \* index at which that run of next or prev started
    runRatio              \* ratio before that run of flip started

vars == <<status, dir, file, screen, render, flip, fullscreen, texture,
          ratio, images, current_image_index, calls, lastEvent, ticks,
          renderBefore, runLen, runStart, runRatio>>

stage == <<render, flip, fullscreen, texture, ratio, images, current_image_index>>

Call(fn, arg) == [fn |-> fn, arg |-> arg]

EmptyTexture == [path |-> 0, dims |-> <<0, 0>>]

ZeroRatio == <<F32Zero, F32Zero>>

\* ------------------------------------------------------------------ inputs
\* all sequences over S of length at most n
RECURSIVE SeqsUpTo(_, _)
SeqsUpTo(S, n) ==
    IF n = 0 THEN {<<>>}
    ELSE LET shorter == SeqsUpTo(S, n - 1)
         IN shorter \cup {Append(s, e) : s \in {t \in shorter : Len(t) = n - 1}, e \in S}

\* a listing: the i-th entry has path i, so paths are distinct
Listing(attrs) == [i \in 1 .. Len(attrs) |-> [path |-> i, ext |-> attrs[i][1], mtime |-> attrs[i][2]]]

\* directories of the builder specification: any mix of extensions, readable
\* and unreadable metadata, equal and different modification times
BuildDirs == {Listing(a) : a \in SeqsUpTo(Exts \X ({NoMeta} \cup Mtimes), MaxEntries)}

\* directories of the navigation specification: none to MaxImages images, or
\* one file that is no image
NavDirs ==
    {Listing(a) : a \in SeqsUpTo({"png"} \X {1}, MaxImages)}
        \cup {Listing(<<<<"txt", 1>>>>)}

\* the directory of the geometry specification: one image
GeomDirs == {Listing(<<<<"png", 1>>>>)}

\* the fields of the Stage literal in Stage::new, before get_filelist is called
StageLiteral ==
    /\ render = RENDERS
    /\ fullscreen = FALSE
    /\ flip = FALSE
    /\ texture = EmptyTexture
    /\ ratio = ZeroRatio
    /\ images = <<>>
    /\ current_image_index = 0

InitWith(dirs) ==
    /\ status = "starting"
    /\ dir \in dirs
    \* path 0 is a path equal to no entry of the directory
    /\ file \in 0 .. Len(dir)
    /\ screen = InitialScreen
    /\ StageLiteral
    /\ calls = <<>>
    /\ lastEvent = "none"
    /\ ticks = 0
    /\ renderBefore = 0
    /\ runLen = 0
    /\ runStart = 0
    /\ runRatio = ZeroRatio

Init == InitWith(NavDirs)

InitBuild == InitWith(BuildDirs)

InitGeom == InitWith(GeomDirs)

\* ------------------------------------------------------- event bookkeeping
\* the run of lastEvent: consecutive next (or prev) handlers, at most
\* count of them, or one or two consecutive flip handlers, with no other
\* handler and no frame tick in between
Event(name) ==
    /\ lastEvent' = name
    /\ ticks' = 0
    /\ renderBefore' = render
    /\ IF name \in {"next", "prev"}
       THEN /\ IF lastEvent = name /\ runLen >= 1 /\ runLen < Len(images)
               THEN runLen' = runLen + 1 /\ runStart' = runStart
               ELSE runLen' = 1 /\ runStart' = current_image_index
            /\ runRatio' = ZeroRatio
       ELSE IF name = "flip"
       THEN /\ IF lastEvent = name /\ runLen = 1
               THEN runLen' = 2 /\ runRatio' = runRatio
               ELSE runLen' = 1 /\ runRatio' = ratio
            /\ runStart' = 0
       ELSE runLen' = 0 /\ runStart' = 0 /\ runRatio' = ZeroRatio

\* ----------------------------------------------------------- Stage methods
\* calculate_ratio: re-arm the render budget and recompute the ratio from the
\* screen size, the texture size and the flip flag
\* a budget that adds up instead of being set
calculate_ratio_accumulate(scr, dims, fl) ==
    /\ render' = render + RENDERS
    /\ ratio' = Ratio(scr, dims, fl)

calculate_ratio(scr, dims, fl) ==
    /\ render' = RENDERS
    /\ ratio' = Ratio(scr, dims, fl)

CalculateRatioCalls == <<Call("screen_size", <<>>)>>

\* what open, format guess and decode give: an error, or an image of some size
LoadError == <<-1, -1>>

LoadOutcomes == {LoadError} \cup ImageDims

\* a load that swallows the error and carries on with the old texture
LoadPathSkipsError(path, d) ==
    IF d = LoadError
    THEN /\ status' = "running"
         /\ calls' = <<Call("open", <<path>>)>>
         /\ UNCHANGED <<texture, render, ratio>>
    ELSE /\ status' = "running"
         /\ texture' = [path |-> path, dims |-> d]
         /\ calculate_ratio(screen, d, flip)
         /\ calls' = <<Call("open", <<path>>), Call("decode", <<path>>),
                       Call("texture_resize", d)>> \o CalculateRatioCalls

\* load_image_from_current once the path is found: open, guess the format,
\* decode, resize the texture, calculate the ratio
LoadPath(path, d) ==
    IF d = LoadError
    THEN \* the ? operator returns Err and the caller's unwrap() panics
         /\ status' = "panicked"
         /\ calls' = <<Call("open", <<path>>)>>
         /\ UNCHANGED <<texture, render, ratio>>
    ELSE /\ status' = "running"
         /\ texture' = [path |-> path, dims |-> d]
         /\ calculate_ratio(screen, d, flip)
         /\ calls' = <<Call("open", <<path>>), Call("decode", <<path>>),
                       Call("texture_resize", d)>> \o CalculateRatioCalls

\* a load that goes on without an image when the index has none
load_image_unchecked(imgs, idx, d) ==
    IF idx >= Len(imgs)
    THEN /\ status' = "running"
         /\ calls' = <<>>
         /\ UNCHANGED <<texture, render, ratio>>
    ELSE LoadPath(imgs[idx + 1].path, d)

\* load_image_from_current for index idx of imgs, with outcome d of the load
load_image_from_current(imgs, idx, d) ==
    IF idx >= Len(imgs)
    THEN \* images.get(..).expect("invalid image index")
         /\ status' = "panicked"
         /\ calls' = <<>>
         /\ UNCHANGED <<texture, render, ratio>>
    ELSE LoadPath(imgs[idx + 1].path, d)

\* Stage::new from the call of get_filelist on, the first load having one of
\* the given outcomes
StageNewWith(outcomes) ==
    /\ status = "starting"
    /\ IF SortPanics(FilterSupported(dir))
       THEN /\ status' = "panicked"
            /\ calls' = <<>>
            /\ UNCHANGED stage
       ELSE LET got == get_filelist(dir, file)
                idx == IF got.initial = None THEN 0 ELSE got.initial
            IN /\ images' = got.images
               /\ current_image_index' = idx
               /\ UNCHANGED <<flip, fullscreen>>
               /\ \E d \in outcomes : load_image_from_current(got.images, idx, d)
    /\ Event("new")
    /\ UNCHANGED <<dir, file, screen>>

StageNew == StageNewWith(LoadOutcomes)

toggle_flip ==
    /\ flip' = ~flip
    /\ calculate_ratio(screen, texture.dims, ~flip)
    /\ calls' = CalculateRatioCalls
    /\ UNCHANGED <<status, fullscreen, texture, images, current_image_index>>

\* next without the wrap-around
NextIndexNoWrap(i, n) == i + 1

\* next that stays on the last image
NextIndexSaturate(i, n) == IF i + 1 >= n THEN i ELSE i + 1

\* (self.current_image_index + 1) % self.images.len()
NextIndex(i, n) == (i + 1) % n

\* prev that stays on the first image
PrevIndexSaturate(i, n) == IF i = 0 THEN 0 ELSE i - 1

PrevIndex(i, n) == IF i = 0 THEN n - 1 ELSE i - 1

RandomIndex(r, n) == r % n

\* navigation that only sets the index and leaves the load to a later tick
NavigateDeferred(idx) ==
    /\ current_image_index' = idx
    /\ calls' = <<>>
    /\ UNCHANGED <<status, render, texture, ratio, flip, fullscreen, images>>

\* next_image, prev_image and random_image: set the index, then load
Navigate(idx) ==
    /\ current_image_index' = idx
    /\ \E d \in LoadOutcomes : load_image_from_current(images, idx, d)
    /\ UNCHANGED <<flip, fullscreen, images>>

next_image == Navigate(NextIndex(current_image_index, Len(images)))

prev_image == Navigate(PrevIndex(current_image_index, Len(images)))

random_image == \E r \in 0 .. MaxRand : Navigate(RandomIndex(r, Len(images)))

toggle_fullscreen ==
    /\ fullscreen' = ~fullscreen
    /\ calls' = <<Call("set_fullscreen", <<IF ~fullscreen THEN 1 ELSE 0>>)>>
    /\ UNCHANGED <<status, render, flip, texture, ratio, images, current_image_index>>

\* std::process::exit(0)
exit ==
    /\ status' = "exited"
    /\ calls' = <<Call("exit", <<0>>)>>
    /\ UNCHANGED stage

\* an arm that recalculates the ratio
IgnoreRearms ==
    /\ calls' = CalculateRatioCalls
    /\ calculate_ratio(screen, texture.dims, flip)
    /\ UNCHANGED <<status, flip, fullscreen, texture, images, current_image_index>>

\* a match arm `_ => {}`
Ignore ==
    /\ calls' = <<>>
    /\ UNCHANGED status
    /\ UNCHANGED stage

\* ---------------------------------------------------------- event handlers
CharEvent(c) ==
    /\ status = "running"
    /\ CASE c = "u" -> next_image /\ Event("next")
         [] c = "o" -> prev_image /\ Event("prev")
         [] c = "m" -> toggle_flip /\ Event("flip")
         [] c = "f" -> toggle_fullscreen /\ Event("fullscreen")
         [] c = "q" -> exit /\ Event("quit")
         [] OTHER -> Ignore /\ Event("ignored")
    /\ UNCHANGED <<dir, file, screen>>

KeyDownEvent(k) ==
    /\ status = "running"
    /\ CASE k = "Right" -> next_image /\ Event("next")
         [] k = "Left" -> prev_image /\ Event("prev")
         [] k = "Space" -> random_image /\ Event("random")
         [] k = "Escape" -> exit /\ Event("quit")
         [] OTHER -> Ignore /\ Event("ignored")
    /\ UNCHANGED <<dir, file, screen>>

\* a resize that keeps the old ratio
ResizeEventStale(w, h) ==
    /\ status = "running"
    /\ screen' = <<w, h>>
    /\ render' = RENDERS
    /\ calls' = <<>>
    /\ Event("resize")
    /\ UNCHANGED <<status, dir, file, flip, fullscreen, texture, ratio, images,
                   current_image_index>>

\* the window system has set the new screen size before it calls the handler
ResizeEvent(w, h) ==
    /\ status = "running"
    /\ screen' = <<w, h>>
    /\ calculate_ratio(<<w, h>>, texture.dims, flip)
    /\ calls' = CalculateRatioCalls
    /\ Event("resize")
    /\ UNCHANGED <<status, dir, file, flip, fullscreen, texture, images, current_image_index>>

DrawCalls(r) ==
    <<Call("begin_default_pass", <<>>),
      Call("apply_pipeline", <<>>),
      Call("apply_bindings", <<texture.path>>),
      Call("apply_uniforms", r[1] \o r[2]),
      Call("draw", <<0, 6, 1>>),
      Call("end_render_pass", <<>>)>>

\* a draw that commits the frame only when it renders
FrameCallsCommitInside(r, rt) ==
    IF r > 0 THEN DrawCalls(rt) \o <<Call("commit_frame", <<>>)>> ELSE <<>>

\* the collaborator calls of draw: the render pass if render > 0, then
\* commit_frame
FrameCalls(r, rt) ==
    (IF r > 0 THEN DrawCalls(rt) ELSE <<>>) \o <<Call("commit_frame", <<>>)>>

\* a draw that forgets to count down
RenderAfterDrawStuck(r) == r

\* a draw that counts down whether it rendered or not
RenderAfterDrawUnguarded(r) == r - 1

\* self.render after draw
RenderAfterDraw(r) == IF r > 0 THEN r - 1 ELSE r

\* one frame tick: update (which does nothing), then draw
Draw ==
    /\ status = "running"
    /\ ticks < MaxTicks
    /\ calls' = FrameCalls(render, ratio)
    /\ render' = RenderAfterDraw(render)
    /\ ticks' = ticks + 1
    /\ runLen' = 0
    /\ runStart' = 0
    /\ runRatio' = ZeroRatio
    /\ UNCHANGED <<status, dir, file, screen, flip, fullscreen, texture, ratio,
                   images, current_image_index, lastEvent, renderBefore>>

Next ==
    \/ StageNew
    \/ \E c \in Chars : CharEvent(c)
    \/ \E k \in KeyCodes : KeyDownEvent(k)
    \/ \E s \in ScreenSizes : ResizeEvent(s[1], s[2])
    \/ Draw

Spec == Init /\ [][Next]_vars

\* the builder alone: every bounded directory, then Stage::new
SpecBuild == InitBuild /\ [][StageNew]_vars

\* the geometry alone: Stage::new with an image of any bounded size, one
\* resize to any bounded window size, and mirror toggles
NextGeom ==
    \/ StageNewWith(GeomDims)
    \/ lastEvent = "new" /\ \E s \in GeomSizes : ResizeEvent(s[1], s[2])
    \/ CharEvent("m")

SpecGeom == InitGeom /\ [][NextGeom]_vars

\* ------------------------------------------------------------- properties
NavEvents == {"next", "prev", "random"}

\* how many calls of fn the last handler made
Count(cs, fn) == Cardinality({i \in DOMAIN cs : cs[i].fn = fn})

Range(s) == {s[i] : i \in DOMAIN s}

\* the process got past Stage::new
Started == status # "starting" /\ ~(status = "panicked" /\ lastEvent = "new")

\* C1: once startup has succeeded, whatever handlers have run, the current
\* index is at least 0 and less than the number of images.
C1_IndexInRange ==
    Started => current_image_index \in 0 .. Len(images) - 1

C1_Witness ==
    /\ status = "running"
    /\ lastEvent = "random"
    /\ Len(images) = 3
    /\ current_image_index = 2
    /\ flip /\ fullscreen

\* C2: a next handler takes index i to (i + 1) mod count and a prev handler
\* takes it to (i - 1 + count) mod count; prev from 0 gives count - 1 and
\* next from count - 1 gives 0.
C2_NextPrevStep ==
    [][LET i == current_image_index
           count == Len(images)
       IN /\ (lastEvent' = "next" /\ ticks' = 0) =>
                 /\ current_image_index' = (i + 1) % count
                 /\ (i = count - 1 => current_image_index' = 0)
          /\ (lastEvent' = "prev" /\ ticks' = 0) =>
                 /\ current_image_index' = (i - 1 + count) % count
                 /\ (i = 0 => current_image_index' = count - 1)]_vars

C2_Witness ==
    /\ status = "running"
    /\ lastEvent = "prev"
    /\ runLen = 1
    /\ runStart = 0
    /\ Len(images) = 3
    /\ current_image_index = 2

\* C3: after exactly count consecutive next handlers, or exactly count
\* consecutive prev handlers, the index is what it was before the first.
C3_CountStepsReturn ==
    (lastEvent \in {"next", "prev"} /\ runLen = Len(images)) =>
        current_image_index = runStart

C3_Witness ==
    /\ status = "running"
    /\ lastEvent = "next"
    /\ Len(images) = 3
    /\ runLen = 3
    /\ runStart = 1
    /\ current_image_index = 1

\* C4: with no event since startup, each of the frame ticks 1, 2 and 3 makes
\* exactly one draw call and tick 4 and every later tick makes none.
C4_InitialBudget ==
    (status = "running" /\ lastEvent = "new") =>
        /\ (ticks \in 1 .. 3 => Count(calls, "draw") = 1)
        /\ (ticks >= 4 => Count(calls, "draw") = 0)

C4_Witness ==
    /\ status = "running"
    /\ lastEvent = "new"
    /\ ticks = 4
    /\ Count(calls, "draw") = 0

\* C5: after a next, prev or random handler, whatever render was before it,
\* each of the following three frame ticks makes exactly one draw call and the
\* fourth makes none, when no other event comes in between.
C5_NavRearmsThree ==
    (status = "running" /\ lastEvent \in NavEvents) =>
        /\ (ticks = 0 => render = 3)
        /\ (ticks \in 1 .. 3 => Count(calls, "draw") = 1)
        /\ (ticks = 4 => Count(calls, "draw") = 0)

C5_Witness ==
    /\ status = "running"
    /\ lastEvent = "random"
    /\ renderBefore = 2
    /\ ticks = 4
    /\ Count(calls, "draw") = 0

\* C6: right after a mirror toggle or a fullscreen toggle the render counter
\* is positive, and the frame tick that follows makes a draw call.
C6_ToggleMovesToActive ==
    (status = "running" /\ lastEvent \in {"flip", "fullscreen"}) =>
        /\ (ticks = 0 => render > 0)
        /\ (ticks = 1 => Count(calls, "draw") = 1)

\* C7: every frame tick commits the frame exactly once; a frame tick that
\* finds render = 0 makes no draw call and leaves render at 0.
C7_IdleTickOnlyCommits ==
    [][ticks' = ticks + 1 =>
          /\ Count(calls', "commit_frame") = 1
          /\ (render = 0 => Count(calls', "draw") = 0 /\ render' = 0)]_vars

C7_Witness ==
    /\ status = "running"
    /\ ticks = 5
    /\ render = 0
    /\ calls = <<Call("commit_frame", <<>>)>>

MetadataReadable == \A i \in DOMAIN dir : dir[i].mtime # NoMeta

\* the modification time of every entry with a supported extension can be read
ImagesReadable ==
    \A i \in DOMAIN dir :
        dir[i].ext \in {"jpg", "jpeg", "png", "bmp", "tif"} => dir[i].mtime # NoMeta

\* how often entry e is in the image list
Times(e) == Cardinality({j \in DOMAIN images : images[j] = e})

\* C9: when the list is built, it holds each directory entry with an
\* extension in {jpg, jpeg, png, bmp, tif} exactly once and nothing else, and
\* of two neighbours the earlier has the modification time that is not less.
C9_ImageSetBuilt ==
    (lastEvent = "new" /\ ImagesReadable) =>
        /\ \A i \in DOMAIN dir :
               Times(dir[i]) = IF dir[i].ext \in {"jpg", "jpeg", "png", "bmp", "tif"}
                               THEN 1 ELSE 0
        /\ Range(images) \subseteq Range(dir)
        /\ \A j \in 1 .. Len(images) - 1 : images[j].mtime >= images[j + 1].mtime

C9_Witness ==
    /\ lastEvent = "new"
    /\ ImagesReadable
    /\ status = "running"
    /\ Len(dir) = 3
    /\ Len(images) = 2
    /\ \E i \in DOMAIN dir : dir[i].ext = "txt"
    /\ images[1].mtime > images[2].mtime
    /\ images[1].path > images[2].path

\* to_lowercase of an extension of Exts
Lower(e) == IF e = "JPG" THEN "jpg" ELSE e

\* C10: when the list is built, it holds every directory entry whose
\* extension, lower-cased, is a supported one.
C10_CaseInsensitive ==
    (lastEvent = "new" /\ MetadataReadable) =>
        \A i \in DOMAIN dir :
            Lower(dir[i].ext) \in SUPPORTED_IMAGE_TYPES => dir[i] \in Range(images)

\* C11: the index Stage::new starts with is the position in the sorted list of
\* the entry path-equal to the starting file when there is one, and 0
\* otherwise.
C11_InitialIndex ==
    lastEvent = "new" =>
        IF \E j \in DOMAIN images : images[j].path = file
        THEN /\ current_image_index < Len(images)
             /\ images[current_image_index + 1].path = file
        ELSE current_image_index = 0

\* the example of the spec: a (older), b (newer), c (no image), started on b
C11_Witness ==
    /\ lastEvent = "new"
    /\ status = "running"
    /\ Len(dir) = 3
    /\ dir[1].ext = "jpg" /\ dir[1].mtime = 1
    /\ dir[2].ext = "jpg" /\ dir[2].mtime = 2
    /\ dir[3].ext = "txt" /\ dir[3].mtime = 1
    /\ file = 2
    /\ images = <<dir[2], dir[1]>>
    /\ current_image_index = 0

\* no directory entry has a supported extension
NoSupported ==
    \A i \in DOMAIN dir : dir[i].ext \notin {"jpg", "jpeg", "png", "bmp", "tif"}

\* C12: with no entry of a supported extension Stage::new panics, so no
\* handler ever runs; the process runs, and next, prev and random are run,
\* only with a list that is not empty.
C12_EmptySetFailsStartup ==
    /\ (status # "starting" /\ NoSupported) =>
           status = "panicked" /\ lastEvent = "new" /\ ticks = 0
    /\ (status \in {"running", "exited"} \/ lastEvent \in NavEvents) =>
           Len(images) > 0

C12_Witness ==
    /\ status = "panicked"
    /\ lastEvent = "new"
    /\ Len(dir) = 1
    /\ images = <<>>
    /\ calls = <<>>

\* the loaded image has at least one column and one row
PositiveImage == texture.dims[1] > 0 /\ texture.dims[2] > 0

Abs(n) == IF n < 0 THEN 0 - n ELSE n

\* |v| = 1.0 and |v| <= 1.0 for a normal or zero f32 <<m, e>>
IsOne(v) == Abs(v[1]) = 8388608 /\ v[2] = -23

AtMostOne(v) == v = <<0, 0>> \/ v[2] < -23 \/ IsOne(v)

\* C13: for every positive window and image size and either mirror flag,
\* both scale factors are at most 1.0 in absolute value and are not zero.
C13_ScaleWithinOne ==
    (status = "running" /\ PositiveImage) =>
        /\ AtMostOne(ratio[1]) /\ ratio[1][1] # 0
        /\ AtMostOne(ratio[2]) /\ ratio[2][1] # 0

C13_Witness ==
    /\ status = "running"
    /\ lastEvent = "flip"
    /\ flip
    /\ screen = <<11, 1>>
    /\ texture.dims = <<1, 11>>
    /\ ratio[1][1] < 0
    /\ ~IsOne(ratio[1])
    /\ IsOne(ratio[2])

\* C14: a mirror toggle negates scaleX and keeps scaleY, the window and the
\* image being the same; two mirror toggles in a row give back the ratio that
\* was there before them.
C14_MirrorNegatesX ==
    (status = "running" /\ lastEvent = "flip") =>
        /\ runLen = 1 =>
               ratio = <<<<0 - runRatio[1][1], runRatio[1][2]>>, runRatio[2]>>
        /\ runLen = 2 => ratio = runRatio

C14_Witness ==
    /\ status = "running"
    /\ lastEvent = "flip"
    /\ runLen = 2
    /\ ~flip
    /\ screen = <<11, 7>>
    /\ texture.dims = <<3, 5>>
    /\ ratio = runRatio
    /\ ~IsOne(ratio[1])

\* C15: a ratio is never calculated from an image without columns or without
\* rows: the process does not go on running with such an image.
C15_ZeroSizeIsAnError ==
    status = "running" => PositiveImage

\* C16: a load that fails (the file is opened but nothing is decoded) panics:
\* the handler makes no other call, so no other file is tried and nothing is
\* drawn, and no handler runs after a panic.
C16_LoadFailureAborts ==
    [][/\ status # "panicked"
       /\ (Count(calls', "open") >= 1 /\ Count(calls', "decode") = 0) =>
              /\ status' = "panicked"
              /\ current_image_index' < Len(images')
              /\ calls' = <<Call("open", <<images'[current_image_index' + 1].path>>)>>]_vars

C16_Witness ==
    /\ status = "panicked"
    /\ lastEvent = "random"
    /\ Len(images) = 3
    /\ current_image_index = 2
    /\ calls = <<Call("open", <<images[3].path>>)>>

\* C17: a frame tick that draws passes the ratio calculated from the current
\* screen size, the size of the loaded image and the current flip flag, and
\* binds the texture of the image at the current index.
C17_DrawIsCurrent ==
    Count(calls, "draw") = 1 =>
        /\ Count(calls, "apply_uniforms") = 1
        /\ Count(calls, "apply_bindings") = 1
        /\ texture.path = images[current_image_index + 1].path
        /\ \A i \in DOMAIN calls :
               /\ calls[i].fn = "apply_uniforms" =>
                      calls[i].arg = Ratio(screen, texture.dims, flip)[1]
                                         \o Ratio(screen, texture.dims, flip)[2]
               /\ calls[i].fn = "apply_bindings" =>
                      calls[i].arg = <<images[current_image_index + 1].path>>

C17_Witness ==
    /\ status = "running"
    /\ Count(calls, "draw") = 1
    /\ flip
    /\ fullscreen
    /\ screen = <<8, 5>>
    /\ texture.dims = <<2, 1>>
    /\ current_image_index = 2

\* C18: render is always in 0..3; a successful load, a mirror toggle and a
\* resize leave it at 3; it gets less only on a frame tick that draws, and then
\* by one; a frame tick with render = 0 leaves it at 0.
C18_CounterBounds ==
    [][/\ render \in 0 .. 3
       /\ render' \in 0 .. 3
       /\ (ticks' = 0 /\ status' = "running"
              /\ lastEvent' \in {"new", "next", "prev", "random", "flip", "resize"}) =>
              render' = 3
       /\ render' < render =>
              ticks' = ticks + 1 /\ render' = render - 1 /\ Count(calls', "draw") = 1
       /\ ticks' = ticks + 1 => render' = IF render > 0 THEN render - 1 ELSE 0]_vars

C18_Witness ==
    /\ status = "running"
    /\ lastEvent = "resize"
    /\ renderBefore = 0
    /\ ticks = 2
    /\ render = 1

\* C19: for every positive window and image size one of the two scale factors
\* is exactly 1.0 in absolute value, and both are when window width * image
\* height = window height * image width.
C19_OneAxisFills ==
    (status = "running" /\ PositiveImage) =>
        /\ IsOne(ratio[1]) \/ IsOne(ratio[2])
        /\ screen[1] * texture.dims[2] = screen[2] * texture.dims[1] =>
               IsOne(ratio[1]) /\ IsOne(ratio[2])

\* C20: mirror toggle, fullscreen toggle and resize keep the index and the
\* list; next, prev and random keep both flags, and the new image is mirrored
\* when flip is set; fullscreen toggle keeps flip; an unmapped character or
\* key changes nothing; a frame tick changes nothing but render, by one, when
\* it draws.
C20_Frame ==
    [][/\ (ticks' = 0 /\ lastEvent' \in {"flip", "fullscreen", "resize"}) =>
              UNCHANGED <<current_image_index, images>>
       /\ (ticks' = 0 /\ lastEvent' \in NavEvents) =>
              /\ UNCHANGED <<flip, fullscreen>>
              /\ (status' = "running" /\ flip) => ratio'[1][1] < 0
       /\ (ticks' = 0 /\ lastEvent' = "fullscreen") => UNCHANGED flip
       /\ (ticks' = 0 /\ lastEvent' = "ignored") => UNCHANGED <<stage, status, screen>>
       /\ ticks' = ticks + 1 =>
              /\ UNCHANGED <<status, screen, flip, fullscreen, texture, ratio,
                             images, current_image_index>>
              /\ render' # render =>
                     render' = render - 1 /\ Count(calls', "draw") = 1]_vars

C20_Witness ==
    /\ status = "running"
    /\ lastEvent = "next"
    /\ ticks = 0
    /\ flip
    /\ fullscreen
    /\ current_image_index = 1
    /\ ratio[1][1] < 0

====
